---------------------------- MODULE Spec2Model ----------------------------
(* Model of twitch_overlay.py: microphone capture -> frame queue ->        *)
(* segmenter -> Whisper engine -> last_lines store -> /stream viewers.     *)
(*                                                                         *)
(* A sample array (numpy 1-d array) is represented by the sequence of runs *)
(* [lo, hi) of device sample positions it holds, so that its length is the *)
(* real number of samples and the identity of every sample is kept.        *)
EXTENDS Integers, Sequences, FiniteSets, TLC

\* ---------------------------------------------------------------- CONFIG
SAMPLE_RATE == 16000
BLOCKSIZE == 2048
MAX_LINES == 3

\* ---------------------------------------------------------------- bounds
\* Spec: blocks the device delivers in a run, and frames waiting in
\* audio_queue (the queue itself is unbounded)
MaxFrames == 50
MaxQueue == 1
\* SpecPipe: the same, for the pipeline without viewers
PipeFrames == 62
PipeQueue == 2
\* FairSpec: blocks the device delivers in a run
LiveFrames == 38
\* Spec2: blocks the device delivers in a run
TwoFrames == 14
\* SpecIndex: blocks the device delivers in a run
IndexFrames == 50
\* SpecPage: blocks the device delivers in a run
PageFrames == 26
\* FairPipe: blocks the device delivers in a run, and frames waiting
DrainFrames == 26
DrainQueue == 3

\* the /stream connection slots; a slot is reused when a viewer reconnects
Viewers == { 1 }
\* two browsers at a time
Viewers2 == { 1, 2 }

\* variant: prev starts as the empty list
NoneAsEmpty == [some |-> TRUE, val |-> <<>>]

\* `prev` is either None (before the first event) or a list
None == [some |-> FALSE, val |-> <<>>]
Some(l) == [some |-> TRUE, val |-> l]

\* variant: compared by identity (cur is not prev): a fresh list always differs
DiffersAlways(c, p) == TRUE

\* variant: only the first snapshot of a connection counts as new
DiffersOnlyFirst(c, p) == ~p.some

\* Python's cur != prev, for a list cur and prev a list or None
Differs(c, p) == ~(p.some /\ p.val = c)

\* holders of `lock`
Free == << "free" >>
ByConsumer == << "consumer" >>
ByViewer(v) == << "viewer", v >>
ByIndex(v) == << "index", v >>

\* what model.transcribe(...)["text"] may hold: sequences of characters
EngineTexts == { <<"a">>, <<" ", "b", "\n">>, <<>>, <<" ", "\n">> }
\* the engine results drawn while viewers are connected
StreamTexts == { <<"a">>, <<" ", "\n">> }

\* the engine results drawn while a browser shows the page
PageTexts == { <<"a">>, <<" ", "b", "\n">> }

VARIABLES
  proc,         \* "running" | "exited": the interpreter process
  mic,          \* "idle" | "open" | "dead": the start_mic thread
  server,       \* "idle" | "serving": app.run in the main thread
  captured,     \* number of blocks the device has delivered
  audio_queue,  \* queue.Queue of frames
  buffer,       \* process_audio local: pending samples
  cpc,          \* process_audio position
  result,       \* process_audio local: result["text"]
  text,         \* process_audio local: result["text"].strip()
  last_lines,   \* the store
  lock,         \* Free | ByConsumer | ByViewer(v) | ByIndex(v)
  clock,        \* last value time.time() returned
  vpc,          \* per connection: position of event_stream
  cur,          \* per connection: local cur
  prev,         \* per connection: local prev
  shared,       \* the names << v, "cur" | "prev" >> bound to the store's own list
  ipc,          \* per browser: position of its GET / request
  page,         \* per browser: the overlay page it shows
  seen,         \* per browser: events of its connection the page has handled
  \* ---- history (observation only)
  sent,         \* per connection: payloads yielded so far
  snapAt,       \* per connection: number of appends when cur was copied
  iterAt,       \* per connection: number of appends when the iteration began
  popped,       \* concatenation of all frames popped
  segments,     \* segments handed to the engine
  before,       \* the store when the latest segment was handed to the engine
  outcome,      \* of the latest engine call: "none" | "error" | "empty" | "text"
  texts,        \* non-empty texts, in the order transcribed
  lineSeg,      \* for each of texts: the number of the segment it came from
  calls,        \* model.transcribe calls made for the latest segment
  hist          \* store value after construction and after every append

vars == << proc, mic, server, captured, audio_queue, buffer, cpc, result, text,
           last_lines, lock, clock, vpc, cur, prev, shared, ipc, page, seen,
           sent, snapAt, iterAt, popped, segments, before, outcome, calls, texts,
           lineSeg, hist >>

pipeVars == << captured, audio_queue, buffer, cpc, result, text, popped, segments,
               before, outcome, calls, texts, lineSeg >>
viewVars == << vpc, cur, prev, shared, sent, snapAt, iterAt >>
pageVars == << ipc, page, seen >>
bootVars == << proc, mic, server >>

\* ------------------------------------------------------------- helpers
RECURSIVE ArrLen(_)
ArrLen(arr) ==
  IF arr = <<>> THEN 0
  ELSE (arr[1].hi - arr[1].lo) + ArrLen(Tail(arr))

\* np.concatenate((a, b))
Concatenate(a, b) == a \o b

\* np.zeros(0)
EmptyArr == <<>>

\* the block the device delivers as its n-th (n from 0), after indata.copy()
Block(n) == << [lo |-> n * BLOCKSIZE, hi |-> (n + 1) * BLOCKSIZE] >>

\* variant: a segment is closed at two seconds
SegmentReadyLate(buf) == ArrLen(buf) >= 2 * SAMPLE_RATE

\* len(buffer) >= SAMPLE_RATE * 1.5
SegmentReady(buf) == 2 * ArrLen(buf) >= 3 * SAMPLE_RATE

\* the characters str.strip() removes (those the engine texts here can hold)
IsSpace(c) == c \in { " ", "\t", "\n", "\r" }

RECURSIVE LStrip(_)
LStrip(s) ==
  IF s = <<>> THEN <<>>
  ELSE IF IsSpace(s[1]) THEN LStrip(Tail(s)) ELSE s

RECURSIVE RStrip(_)
RStrip(s) ==
  IF s = <<>> THEN <<>>
  ELSE IF IsSpace(s[Len(s)]) THEN RStrip(SubSeq(s, 1, Len(s) - 1)) ELSE s

\* variant: the text is used as returned
StripNone(s) == s

\* str.strip()
Strip(s) == RStrip(LStrip(s))

\* last_lines[-MAX_LINES:]
LastN(s, n) ==
  IF Len(s) <= n THEN s ELSE SubSeq(s, Len(s) - n + 1, Len(s))

\* last_lines.append((text, ts))
StoreAppend(store, t, ts) == Append(store, << t, ts >>)

\* variant: keeps the oldest entries, last_lines[:MAX_LINES]
StoreTruncateKeepsOldest(store) ==
  IF Len(store) > MAX_LINES THEN SubSeq(store, 1, MAX_LINES) ELSE store

\* if len(last_lines) > MAX_LINES: last_lines[:] = last_lines[-MAX_LINES:]
StoreTruncate(store) ==
  IF Len(store) > MAX_LINES THEN LastN(store, MAX_LINES) ELSE store

\* variant: newest first
PayloadNewestFirst(c) ==
  [ i \in 1..Len(c) |->
      [text |-> c[Len(c) + 1 - i][1], ts |-> c[Len(c) + 1 - i][2]] ]

\* [{"text": t, "ts": ts} for (t, ts) in cur], serialised
Payload(c) == [ i \in 1..Len(c) |-> [text |-> c[i][1], ts |-> c[i][2]] ]

\* a browser that has not loaded the overlay page
NoPage == [loaded |-> FALSE, html |-> <<>>, els |-> <<>>, at |-> 0,
           got |-> FALSE, data |-> <<>>]

\* {% for t,ts in lines %} <div class="line" id="l{{loop.index}}"
\* data-ts="{{ts}}">{{t}}</div> {% endfor %}: the line elements of the page
Render(lines) ==
  [ i \in 1..Len(lines) |-> [id |-> i, text |-> lines[i][1], ts |-> lines[i][2]] ]

\* data.forEach((line,i) => { el = getElementById("l"+(i+1)); if (el) {...} }):
\* the line elements after the handler has run on data
ForEachLine(els, data) ==
  [ j \in 1..Len(els) |->
      IF \E i \in 1..Len(data) : els[j].id = i
        THEN [id |-> els[j].id, text |-> data[els[j].id].text,
              ts |-> data[els[j].id].ts]
        ELSE els[j] ]

\* lists are objects: a mutation of the store in place shows through every
\* name bound to the store's own list, and through no name bound to a copy
CurAfter(store) ==
  [ v \in DOMAIN cur |-> IF << v, "cur" >> \in shared THEN store ELSE cur[v] ]
PrevAfter(store) ==
  [ v \in DOMAIN prev |->
      IF << v, "prev" >> \in shared THEN Some(store) ELSE prev[v] ]

\* ---------------------------------------------------------------- Init
InitOn(vs) ==
  /\ proc = "running"
  /\ mic = "idle"
  /\ server = "idle"
  /\ captured = 0
  /\ audio_queue = <<>>
  /\ buffer = EmptyArr
  /\ cpc = "get"
  /\ result = <<>>
  /\ text = <<>>
  /\ last_lines = <<>>
  /\ lock = Free
  /\ clock = 0
  /\ vpc = [v \in vs |-> "closed"]
  /\ cur = [v \in vs |-> <<>>]
  /\ prev = [v \in vs |-> None]
  /\ sent = [v \in vs |-> <<>>]
  /\ snapAt = [v \in vs |-> 0]
  /\ iterAt = [v \in vs |-> 0]
  /\ shared = {}
  /\ ipc = [v \in vs |-> "idle"]
  /\ page = [v \in vs |-> NoPage]
  /\ seen = [v \in vs |-> 0]
  /\ popped = <<>>
  /\ segments = <<>>
  /\ before = <<>>
  /\ outcome = "none"
  /\ texts = <<>>
  /\ lineSeg = <<>>
  /\ calls = 0
  /\ hist = << <<>> >>

Init == InitOn(Viewers)

\* ------------------------------------------------------------- startup
\* start_mic: sd.InputStream(...) and stream.start() succeed
StartMicOk ==
  /\ proc = "running" /\ mic = "idle"
  /\ mic' = "open"
  /\ UNCHANGED << proc, server, pipeVars, viewVars, pageVars,
                  last_lines, lock, clock, hist >>

\* start_mic: opening or starting the device raises; the exception ends the
\* start_mic thread only
StartMicFail ==
  /\ proc = "running" /\ mic = "idle"
  /\ mic' = "dead"
  /\ UNCHANGED << proc, server, pipeVars, viewVars, pageVars,
                  last_lines, lock, clock, hist >>

\* start_flask: app.run binds and serves
StartFlaskOk ==
  /\ proc = "running" /\ server = "idle"
  /\ server' = "serving"
  /\ UNCHANGED << proc, mic, pipeVars, viewVars, pageVars,
                  last_lines, lock, clock, hist >>

\* start_flask: app.run raises in the main thread; the interpreter exits and
\* takes the daemon threads with it
StartFlaskFail ==
  /\ proc = "running" /\ server = "idle"
  /\ proc' = "exited"
  /\ UNCHANGED << mic, server, pipeVars, viewVars, pageVars,
                  last_lines, lock, clock, hist >>

\* ------------------------------------------------------------- capture
\* variant: a block delivered with a status flag is logged and not enqueued
audio_callbackDropsOnStatus(status) ==
  /\ proc = "running" /\ mic = "open"
  /\ audio_queue' = IF status THEN audio_queue
                     ELSE Append(audio_queue, Block(captured))
  /\ captured' = captured + 1
  /\ UNCHANGED << bootVars, pageVars, buffer, cpc, result, text, popped, segments,
                  before, outcome, calls, texts, lineSeg, viewVars, last_lines,
                  lock, clock, hist >>

\* audio_callback(indata, frames, time_info, status): a set status is logged;
\* queue.Queue() has no maxsize, so put() returns at once
audio_callback(status) ==
  /\ proc = "running" /\ mic = "open"
  /\ audio_queue' = Append(audio_queue, Block(captured))
  /\ captured' = captured + 1
  /\ UNCHANGED << bootVars, pageVars, buffer, cpc, result, text, popped, segments, before,
                  outcome, calls, texts, lineSeg, viewVars, last_lines, lock, clock, hist >>

\* ------------------------------------------------------------ consumer
\* variant: the newest waiting frame is taken first (a LIFO queue)
ConsumerGetLifo ==
  /\ proc = "running" /\ cpc = "get"
  /\ audio_queue /= <<>>
  /\ LET block == audio_queue[Len(audio_queue)]
         buf == Concatenate(buffer, block)
     IN /\ buffer' = buf
        /\ popped' = popped \o block
        /\ IF SegmentReady(buf)
             THEN /\ cpc' = "engine"
                  /\ segments' = Append(segments, buf)
                  /\ before' = last_lines
                  /\ calls' = 0
             ELSE /\ cpc' = "get"
                  /\ UNCHANGED << segments, before, calls >>
  /\ audio_queue' = SubSeq(audio_queue, 1, Len(audio_queue) - 1)
  /\ UNCHANGED << bootVars, pageVars, captured, result, text, outcome,
                  texts, lineSeg, viewVars, last_lines, lock, clock, hist >>

\* block = audio_queue.get(); buffer = concatenate; threshold test
ConsumerGet ==
  /\ proc = "running" /\ cpc = "get"
  /\ audio_queue /= <<>>
  /\ LET block == Head(audio_queue)
         buf == Concatenate(buffer, block)
     IN /\ buffer' = buf
        /\ popped' = popped \o block
        /\ IF SegmentReady(buf)
             THEN /\ cpc' = "engine"
                  /\ segments' = Append(segments, buf)
                  /\ before' = last_lines
                  /\ calls' = 0
             ELSE /\ cpc' = "get"
                  /\ UNCHANGED << segments, before, calls >>
  /\ audio_queue' = Tail(audio_queue)
  /\ UNCHANGED << bootVars, pageVars, captured, result, text, outcome,
                  texts, lineSeg, viewVars, last_lines, lock, clock, hist >>

\* wave.open / writeframes raises (the file cannot be written): except
\* Exception, before model.transcribe is reached
ConsumerWriteError ==
  /\ proc = "running" /\ cpc = "engine"
  /\ cpc' = "reset"
  /\ outcome' = "error"
  /\ UNCHANGED << bootVars, pageVars, captured, audio_queue, buffer, result, text,
                  popped, segments, before, calls, texts, lineSeg, viewVars,
                  last_lines, lock, clock, hist >>

\* variant: the exception is not caught and ends the process_audio thread
ConsumerEngineErrorEscapes ==
  /\ proc = "running" /\ cpc = "engine"
  /\ cpc' = "dead"
  /\ outcome' = "error"
  /\ calls' = calls + 1
  /\ UNCHANGED << bootVars, pageVars, captured, audio_queue, buffer, result, text,
                  popped, segments, before, texts, lineSeg, viewVars, last_lines, lock,
                  clock, hist >>

\* model.transcribe or result["text"] raises: except Exception
ConsumerEngineError ==
  /\ proc = "running" /\ cpc = "engine"
  /\ cpc' = "reset"
  /\ outcome' = "error"
  /\ calls' = calls + 1
  /\ UNCHANGED << bootVars, pageVars, captured, audio_queue, buffer, result, text,
                  popped, segments, before, texts, lineSeg, viewVars, last_lines, lock, clock, hist >>

\* variant: a segment that gave no text is handed to the engine again
ConsumerEngineTextRetriesEmpty(raw) ==
  /\ proc = "running" /\ cpc = "engine"
  /\ result' = raw
  /\ text' = Strip(raw)
  /\ calls' = calls + 1
  /\ IF Strip(raw) /= <<>>
       THEN /\ cpc' = "append"
            /\ outcome' = "text"
            /\ texts' = Append(texts, Strip(raw))
            /\ lineSeg' = Append(lineSeg, Len(segments))
       ELSE /\ cpc' = "engine"
            /\ outcome' = "empty"
            /\ UNCHANGED << texts, lineSeg >>
  /\ UNCHANGED << bootVars, pageVars, captured, audio_queue, buffer, popped, segments,
                  before, viewVars, last_lines, lock, clock, hist >>

\* the file is written and the engine returns raw;
\* text = result["text"].strip(); if text: ...
ConsumerEngineText(raw) ==
  /\ proc = "running" /\ cpc = "engine"
  /\ result' = raw
  /\ text' = Strip(raw)
  /\ calls' = calls + 1
  /\ IF Strip(raw) /= <<>>
       THEN /\ cpc' = "append"
            /\ outcome' = "text"
            /\ texts' = Append(texts, Strip(raw))
            /\ lineSeg' = Append(lineSeg, Len(segments))
       ELSE /\ cpc' = "reset"
            /\ outcome' = "empty"
            /\ UNCHANGED << texts, lineSeg >>
  /\ UNCHANGED << bootVars, pageVars, captured, audio_queue, buffer, popped, segments,
                  before, viewVars, last_lines, lock, clock, hist >>

\* ts = time.time(); with lock: last_lines.append((text, ts))
ConsumerAppend(tick) ==
  /\ proc = "running" /\ cpc = "append"
  /\ lock = Free
  /\ lock' = ByConsumer
  /\ clock' = clock + tick
  /\ last_lines' = StoreAppend(last_lines, text, clock + tick)
  /\ cur' = CurAfter(StoreAppend(last_lines, text, clock + tick))
  /\ prev' = PrevAfter(StoreAppend(last_lines, text, clock + tick))
  /\ cpc' = "truncate"
  /\ UNCHANGED << bootVars, pageVars, captured, audio_queue, buffer, result, text,
                  popped, segments, before, outcome, calls, texts, lineSeg,
                  vpc, shared, sent, snapAt, iterAt, hist >>

\* variant: the lock is not released after the append
ConsumerTruncateKeepsLock ==
  /\ proc = "running" /\ cpc = "truncate"
  /\ lock = ByConsumer
  /\ last_lines' = StoreTruncate(last_lines)
  /\ cur' = CurAfter(StoreTruncate(last_lines))
  /\ prev' = PrevAfter(StoreTruncate(last_lines))
  /\ hist' = Append(hist, StoreTruncate(last_lines))
  /\ cpc' = "reset"
  /\ UNCHANGED << bootVars, pageVars, captured, audio_queue, buffer, result, text,
                  popped, segments, before, outcome, calls, texts, lineSeg,
                  vpc, shared, sent, snapAt, iterAt, lock, clock >>

\* if len(last_lines) > MAX_LINES: truncate; leaving the with block
ConsumerTruncate ==
  /\ proc = "running" /\ cpc = "truncate"
  /\ lock = ByConsumer
  /\ last_lines' = StoreTruncate(last_lines)
  /\ cur' = CurAfter(StoreTruncate(last_lines))
  /\ prev' = PrevAfter(StoreTruncate(last_lines))
  /\ hist' = Append(hist, StoreTruncate(last_lines))
  /\ lock' = Free
  /\ cpc' = "reset"
  /\ UNCHANGED << bootVars, pageVars, captured, audio_queue, buffer, result, text,
                  popped, segments, before, outcome, calls, texts, lineSeg,
                  vpc, shared, sent, snapAt, iterAt, clock >>

\* variant: the buffer is not cleared after a segment
ConsumerResetKeepsBuffer ==
  /\ proc = "running" /\ cpc = "reset"
  /\ cpc' = "get"
  /\ UNCHANGED << bootVars, pageVars, captured, audio_queue, buffer, result, text,
                  popped, segments, before, outcome, calls, texts, lineSeg, viewVars,
                  last_lines, lock, clock, hist >>

\* buffer = np.zeros(0)
ConsumerReset ==
  /\ proc = "running" /\ cpc = "reset"
  /\ buffer' = EmptyArr
  /\ cpc' = "get"
  /\ UNCHANGED << bootVars, pageVars, captured, audio_queue, result, text, popped,
                  segments, before, outcome, calls, texts, lineSeg, viewVars, last_lines, lock, clock, hist >>

\* ------------------------------------------------------------- viewers
\* variant: prev is one variable shared by all connections
ConnectResetsAll(v) ==
  /\ proc = "running" /\ server = "serving"
  /\ vpc[v] = "closed"
  /\ vpc' = [vpc EXCEPT ![v] = "acquire"]
  /\ prev' = [w \in DOMAIN prev |-> None]
  /\ cur' = [cur EXCEPT ![v] = <<>>]
  /\ sent' = [sent EXCEPT ![v] = <<>>]
  /\ snapAt' = [snapAt EXCEPT ![v] = 0]
  /\ iterAt' = [iterAt EXCEPT ![v] = Len(hist) - 1]
  /\ shared' = shared \ { << v, "cur" >>, << v, "prev" >> }
  /\ seen' = [seen EXCEPT ![v] = 0]
  /\ UNCHANGED << bootVars, pipeVars, ipc, page, last_lines, lock, clock, hist >>

\* GET /stream: a new generator, prev = None
Connect(v) ==
  /\ proc = "running" /\ server = "serving"
  /\ vpc[v] = "closed"
  /\ vpc' = [vpc EXCEPT ![v] = "acquire"]
  /\ prev' = [prev EXCEPT ![v] = None]
  /\ cur' = [cur EXCEPT ![v] = <<>>]
  /\ sent' = [sent EXCEPT ![v] = <<>>]
  /\ snapAt' = [snapAt EXCEPT ![v] = 0]
  /\ iterAt' = [iterAt EXCEPT ![v] = Len(hist) - 1]
  /\ shared' = shared \ { << v, "cur" >>, << v, "prev" >> }
  /\ seen' = [seen EXCEPT ![v] = 0]
  /\ UNCHANGED << bootVars, pipeVars, ipc, page, last_lines, lock, clock, hist >>

\* variant: the snapshot is taken without waiting for the lock
StreamAcquireNoLock(v) ==
  /\ proc = "running" /\ vpc[v] = "acquire"
  /\ lock' = ByViewer(v)
  /\ vpc' = [vpc EXCEPT ![v] = "copy"]
  /\ UNCHANGED << bootVars, pageVars, pipeVars, shared, cur, prev, sent, snapAt, iterAt,
                  last_lines, clock, hist >>

\* with lock: (entering)
StreamAcquire(v) ==
  /\ proc = "running" /\ vpc[v] = "acquire"
  /\ lock = Free
  /\ lock' = ByViewer(v)
  /\ vpc' = [vpc EXCEPT ![v] = "copy"]
  /\ UNCHANGED << bootVars, pageVars, pipeVars, shared, cur, prev, sent, snapAt, iterAt,
                  last_lines, clock, hist >>

\* variant: cur = last_lines, the store's own list
StreamCopyAlias(v) ==
  /\ proc = "running" /\ vpc[v] = "copy"
  /\ lock = ByViewer(v)
  /\ cur' = [cur EXCEPT ![v] = last_lines]
  /\ shared' = shared \cup { << v, "cur" >> }
  /\ snapAt' = [snapAt EXCEPT ![v] = Len(hist) - 1]
  /\ lock' = Free
  /\ vpc' = [vpc EXCEPT ![v] = "compare"]
  /\ UNCHANGED << bootVars, pageVars, pipeVars, prev, sent, iterAt,
                  last_lines, clock, hist >>

\* cur = list(last_lines); leaving the with block
StreamCopy(v) ==
  /\ proc = "running" /\ vpc[v] = "copy"
  /\ lock = ByViewer(v)
  /\ cur' = [cur EXCEPT ![v] = last_lines]
  /\ shared' = shared \ { << v, "cur" >> }
  /\ snapAt' = [snapAt EXCEPT ![v] = Len(hist) - 1]
  /\ lock' = Free
  /\ vpc' = [vpc EXCEPT ![v] = "compare"]
  /\ UNCHANGED << bootVars, pageVars, pipeVars, prev, sent, iterAt,
                  last_lines, clock, hist >>

\* if cur != prev: yield "data: " + json.dumps(...)
StreamCompare(v) ==
  /\ proc = "running" /\ vpc[v] = "compare"
  /\ IF Differs(cur[v], prev[v])
       THEN /\ sent' = [sent EXCEPT ![v] = Append(@, Payload(cur[v]))]
            /\ vpc' = [vpc EXCEPT ![v] = "yield"]
       ELSE /\ vpc' = [vpc EXCEPT ![v] = "sleep"]
            /\ UNCHANGED sent
  /\ UNCHANGED << bootVars, pageVars, pipeVars, shared, cur, prev, snapAt, iterAt,
                  last_lines, lock, clock, hist >>

\* variant: prev is not updated after an event
StreamResumeKeepsPrev(v) ==
  /\ proc = "running" /\ vpc[v] = "yield"
  /\ vpc' = [vpc EXCEPT ![v] = "sleep"]
  /\ UNCHANGED << bootVars, pageVars, pipeVars, shared, cur, prev, sent, snapAt, iterAt,
                  last_lines, lock, clock, hist >>

\* the generator is resumed after the yield: prev = cur
StreamResume(v) ==
  /\ proc = "running" /\ vpc[v] = "yield"
  /\ prev' = [prev EXCEPT ![v] = Some(cur[v])]
  /\ shared' = IF << v, "cur" >> \in shared
                  THEN shared \cup { << v, "prev" >> }
                  ELSE shared \ { << v, "prev" >> }
  /\ vpc' = [vpc EXCEPT ![v] = "sleep"]
  /\ UNCHANGED << bootVars, pageVars, pipeVars, cur, sent, snapAt, iterAt,
                  last_lines, lock, clock, hist >>

\* time.sleep(0.1) returns; the next iteration begins
StreamSleep(v) ==
  /\ proc = "running" /\ vpc[v] = "sleep"
  /\ vpc' = [vpc EXCEPT ![v] = "acquire"]
  /\ iterAt' = [iterAt EXCEPT ![v] = Len(hist) - 1]
  /\ UNCHANGED << bootVars, pageVars, pipeVars, shared, cur, prev, sent, snapAt,
                  last_lines, lock, clock, hist >>

\* the client went away: the generator is closed at its yield
Disconnect(v) ==
  /\ proc = "running" /\ vpc[v] = "yield"
  /\ vpc' = [vpc EXCEPT ![v] = "closed"]
  /\ UNCHANGED << bootVars, pageVars, pipeVars, shared, cur, prev, sent, snapAt, iterAt,
                  last_lines, lock, clock, hist >>

\* ---------------------------------------------------------------- pages
\* variant: the page is rendered without waiting for the lock
IndexAcquireNoLock(v) ==
  /\ proc = "running" /\ server = "serving"
  /\ ipc[v] = "idle" /\ vpc[v] = "closed"
  /\ lock' = ByIndex(v)
  /\ ipc' = [ipc EXCEPT ![v] = "render"]
  /\ UNCHANGED << bootVars, pipeVars, viewVars, page, seen, last_lines, clock, hist >>

\* GET / from browser v (its previous page and connection are gone):
\* with lock: (entering)
IndexAcquire(v) ==
  /\ proc = "running" /\ server = "serving"
  /\ ipc[v] = "idle" /\ vpc[v] = "closed"
  /\ lock = Free
  /\ lock' = ByIndex(v)
  /\ ipc' = [ipc EXCEPT ![v] = "render"]
  /\ UNCHANGED << bootVars, pipeVars, viewVars, page, seen, last_lines, clock, hist >>

\* return render_template_string(HTML, lines=last_lines, ...); leaving the
\* with block; the browser shows the page
IndexRender(v) ==
  /\ proc = "running" /\ ipc[v] = "render"
  /\ lock = ByIndex(v)
  /\ page' = [page EXCEPT ![v] =
                [loaded |-> TRUE, html |-> Render(last_lines),
                 els |-> Render(last_lines), at |-> Len(hist) - 1,
                 got |-> FALSE, data |-> <<>>]]
  /\ seen' = [seen EXCEPT ![v] = Len(sent[v])]
  /\ lock' = Free
  /\ ipc' = [ipc EXCEPT ![v] = "idle"]
  /\ UNCHANGED << bootVars, pipeVars, viewVars, last_lines, clock, hist >>

\* evt.onmessage: the page of v handles the next event of its connection
OnMessage(v) ==
  /\ proc = "running"
  /\ page[v].loaded
  /\ seen[v] < Len(sent[v])
  /\ page' = [page EXCEPT ![v].els = ForEachLine(@, sent[v][seen[v] + 1]),
                           ![v].got = TRUE,
                           ![v].data = sent[v][seen[v] + 1]]
  /\ seen' = [seen EXCEPT ![v] = @ + 1]
  /\ UNCHANGED << bootVars, pipeVars, viewVars, ipc, last_lines, lock, clock, hist >>

\* ---------------------------------------------------------------- Next
Boot ==
  \/ StartMicOk
  \/ StartMicFail
  \/ StartFlaskOk
  \/ StartFlaskFail

Consumer(raws) ==
  \/ ConsumerGet
  \/ ConsumerWriteError
  \/ ConsumerEngineError
  \/ \E raw \in raws : ConsumerEngineText(raw)
  \/ \E tick \in {0, 1} : ConsumerAppend(tick)
  \/ ConsumerTruncate
  \/ ConsumerReset

\* the device delivers a block; the run is cut at maxFrames blocks and the
\* backlog at maxQueue frames
Capture(maxFrames, maxQueue) ==
  /\ captured < maxFrames
  /\ Len(audio_queue) < maxQueue
  /\ \E status \in BOOLEAN : audio_callback(status)

StreamOn(vs) ==
  \/ \E v \in vs : Connect(v)
  \/ \E v \in vs : StreamAcquire(v)
  \/ \E v \in vs : StreamCopy(v)
  \/ \E v \in vs : StreamCompare(v)
  \/ \E v \in vs : StreamResume(v)
  \/ \E v \in vs : StreamSleep(v)
  \/ \E v \in vs : Disconnect(v)

Stream == StreamOn(Viewers)

IndexOn(vs) ==
  \/ \E v \in vs : IndexAcquire(v)
  \/ \E v \in vs : IndexRender(v)

Next ==
  \/ Boot
  \/ Capture(MaxFrames, MaxQueue)
  \/ Consumer(StreamTexts)
  \/ Stream

Spec == Init /\ [][Next]_vars

\* the pipeline alone: no viewer connects
NextPipe ==
  \/ Boot
  \/ Capture(PipeFrames, PipeQueue)
  \/ Consumer(EngineTexts)

SpecPipe == Init /\ [][NextPipe]_vars

\* Spec on a shorter run, with the scheduling the threads get: a handler
\* that can take a step takes it, a handler waiting for the lock gets it
\* (the consumer holds it for an append only), and a client either reads the
\* event it is sent or is found gone
NextLive ==
  \/ Boot
  \/ Capture(LiveFrames, MaxQueue)
  \/ Consumer(StreamTexts)
  \/ Stream

FairSpec ==
  /\ Init /\ [][NextLive]_vars
  /\ WF_vars(ConsumerTruncate)
  /\ \A v \in Viewers :
       /\ SF_vars(StreamAcquire(v))
       /\ WF_vars(StreamCopy(v))
       /\ WF_vars(StreamCompare(v))
       /\ WF_vars(StreamResume(v))
       /\ WF_vars(StreamSleep(v))

\* two browsers, each loading the page or holding a /stream connection, on a
\* short run
Init2 == InitOn(Viewers2)

Next2 ==
  \/ Boot
  \/ Capture(TwoFrames, MaxQueue)
  \/ Consumer(StreamTexts)
  \/ StreamOn(Viewers2)
  \/ IndexOn(Viewers2)

Spec2 == Init2 /\ [][Next2]_vars

\* browsers that load the overlay page and never open /stream (no script)
NextIndex ==
  \/ Boot
  \/ Capture(IndexFrames, MaxQueue)
  \/ Consumer(PageTexts)
  \/ IndexOn(Viewers)

SpecIndex == Init /\ [][NextIndex]_vars

\* one browser that loads the overlay page, whose script opens /stream
NextPage ==
  \/ Boot
  \/ Capture(PageFrames, MaxQueue)
  \/ Consumer(PageTexts)
  \/ Stream
  \/ IndexOn(Viewers)
  \/ \E v \in Viewers : OnMessage(v)

SpecPage == Init /\ [][NextPage]_vars

\* the pipeline alone on a short run with a deeper backlog, the consumer
\* thread being scheduled whenever it can take a step and every attempt on a
\* segment (file write, engine call) coming to an end
NextDrain ==
  \/ Boot
  \/ Capture(DrainFrames, DrainQueue)
  \/ Consumer(EngineTexts)

FairPipe ==
  /\ Init /\ [][NextDrain]_vars
  /\ WF_vars(Consumer(EngineTexts))

\* ======================================================= properties
\* the positions of the process_audio loop
ConsumerPositions == { "get", "engine", "append", "truncate", "reset" }

Min(a, b) == IF a <= b THEN a ELSE b

\* the last min(n, Len(s)) elements of s, in order
TakeLast(s, n) ==
  [ i \in 1..Min(n, Len(s)) |-> s[Len(s) - Min(n, Len(s)) + i] ]

\* the texts of a store value
StoreTexts(store) == [ i \in 1..Len(store) |-> store[i][1] ]

\* concatenation of a sequence of sample arrays
RECURSIVE Flat(_)
Flat(ss) == IF ss = <<>> THEN <<>> ELSE ss[1] \o Flat(Tail(ss))

\* canonical form of a sample array: adjacent runs merged
RECURSIVE Norm(_)
Norm(arr) ==
  IF Len(arr) <= 1 THEN arr
  ELSE IF arr[1].hi = arr[2].lo
    THEN Norm(<< [lo |-> arr[1].lo, hi |-> arr[2].hi] >> \o SubSeq(arr, 3, Len(arr)))
    ELSE << arr[1] >> \o Norm(Tail(arr))

\* the event a store value is to be sent as: (text, ts) entries in store order
ExpectedEvent(store) ==
  [ i \in 1..Len(store) |-> [text |-> store[i][1], ts |-> store[i][2]] ]

\* a sequence with runs of equal consecutive elements collapsed to one
RECURSIVE Collapse(_)
Collapse(s) ==
  IF Len(s) <= 1 THEN s
  ELSE IF s[1] = s[2] THEN Collapse(Tail(s))
  ELSE << s[1] >> \o Collapse(Tail(s))

\* s is a subsequence of h
RECURSIVE IsSubseq(_, _)
IsSubseq(s, h) ==
  IF s = <<>> THEN TRUE
  ELSE IF h = <<>> THEN FALSE
  ELSE IF s[1] = h[1] THEN IsSubseq(Tail(s), Tail(h))
  ELSE IsSubseq(s, Tail(h))

\* the events of the distinct store states, in the order they occurred
StateEvents == Collapse([ k \in 1..Len(hist) |-> ExpectedEvent(hist[k]) ])

\* s is empty or holds whitespace only
AllSpace(s) == \A i \in 1..Len(s) : s[i] \in { " ", "\t", "\n", "\r" }

\* C1: whenever the consumer is between segments (not between an engine
\* result and the end of its append), the texts in the store are the last
\* min(n, MAX_LINES) of the n non-empty texts transcribed so far, oldest first.
C1_StoreIsLastTexts ==
  cpc \in { "get", "engine", "reset" } =>
    StoreTexts(last_lines) = TakeLast(texts, MAX_LINES)

\* more than MAX_LINES non-empty texts, not all equal, then a failed segment
C1_Witness ==
  /\ Len(texts) = MAX_LINES + 1
  /\ texts[1] /= texts[2]
  /\ outcome = "error"
  /\ cpc = "get"

\* C2: outside the consumer's critical section the store holds at most
\* MAX_LINES lines, and no snapshot a stream handler copied under the lock is
\* longer than MAX_LINES.
C2_ReadersSeeAtMostMaxLines ==
  /\ lock /= ByConsumer => Len(last_lines) <= MAX_LINES
  /\ \A v \in Viewers : Len(cur[v]) <= MAX_LINES

\* a snapshot copied after the store has overflowed
C2_Witness ==
  \E v \in Viewers :
    /\ vpc[v] = "compare"
    /\ snapAt[v] > MAX_LINES
    /\ Len(cur[v]) = MAX_LINES

\* C3: every event sent on a connection is the (text, ts) list, in store
\* order and of length at most MAX_LINES, of a complete store state; the
\* event just sent is that of the store as it was when the connection last
\* copied it.
C3_EventIsSnapshot ==
  \A v \in Viewers :
    /\ \A i \in 1..Len(sent[v]) :
         /\ Len(sent[v][i]) <= MAX_LINES
         /\ \E k \in 1..Len(hist) : sent[v][i] = ExpectedEvent(hist[k])
    /\ vpc[v] = "yield" =>
         sent[v][Len(sent[v])] = ExpectedEvent(hist[snapAt[v] + 1])

\* an event of MAX_LINES lines with differing timestamps has just been sent
C3_Witness ==
  \E v \in Viewers :
    /\ vpc[v] = "yield"
    /\ Len(sent[v][Len(sent[v])]) = MAX_LINES
    /\ sent[v][Len(sent[v])][1].ts < sent[v][Len(sent[v])][MAX_LINES].ts
    /\ snapAt[v] > MAX_LINES

\* C4: two consecutive events on one connection never carry equal payloads.
C4_ConsecutiveEventsDiffer ==
  \A v \in Viewers :
    \A i \in 1..(Len(sent[v]) - 1) : sent[v][i] /= sent[v][i + 1]

\* after two events, a poll finds the store equal to the last event sent
\* although a line was appended since
C4_Witness ==
  \E v \in Viewers :
    /\ Len(sent[v]) >= 2
    /\ vpc[v] = "compare"
    /\ ~Differs(cur[v], prev[v])
    /\ sent[v][Len(sent[v])] /= <<>>

\* a bound on the store states of a FairSpec run: every segment holds at
\* least SAMPLE_RATE * 1.5 samples
MaxStates == (2 * LiveFrames * BLOCKSIZE) \div (3 * SAMPLE_RATE) + 1

\* when a polling iteration has done its work (the connection sleeps), the
\* last snapshot sent is a store state at least as new as the store was when
\* that iteration began
SentByEndOfIteration ==
  \A v \in Viewers :
    vpc[v] = "sleep" =>
      /\ prev[v].some
      /\ sent[v] /= <<>>
      /\ \E k \in iterAt[v]..(Len(hist) - 1) :
           /\ prev[v].val = hist[k + 1]
           /\ sent[v][Len(sent[v])] = ExpectedEvent(hist[k + 1])

\* C5: a change of the store is sent, or superseded by a newer state, by the
\* end of the polling iteration after the one in which it happened (two
\* iterations at most), and under fair scheduling every store state reached
\* while a viewer is connected is followed by that viewer having been sent
\* it or a newer one, unless the connection closes.
C5_ChangeSentWithinTwoIterations ==
  /\ [] SentByEndOfIteration
  /\ \A v \in Viewers :
       \A k \in 1..MaxStates :
         (vpc[v] /= "closed" /\ Len(hist) = k) ~>
           (\/ vpc[v] = "closed"
            \/ /\ prev[v].some
               /\ \E j \in k..Len(hist) : prev[v].val = hist[j])

\* a change made while connected has been sent and another one is pending
C5_Witness ==
  \E v \in Viewers :
    /\ vpc[v] = "sleep"
    /\ Len(sent[v]) >= 2
    /\ iterAt[v] >= 1
    /\ snapAt[v] < Len(hist) - 1
    /\ prev[v].val /= last_lines

\* C6: the payloads sent on a connection, in order, form a subsequence of
\* the events of the distinct store states in the order those occurred.
C6_SentIsSubsequenceOfHistory ==
  \A v \in Viewers : IsSubseq(sent[v], StateEvents)

\* a connection that was sent the empty store and then skipped a state
C6_Witness ==
  \E v \in Viewers :
    /\ Len(sent[v]) = 3
    /\ sent[v][1] = <<>>
    /\ Len(sent[v][2]) = 2
    /\ Len(StateEvents) > 4

\* C7: the consumer never leaves its loop; after an engine error the store
\* is as it was when the segment was handed over, the buffer is empty until
\* the next frame is popped and never holds a sample of the failed segment.
C7_EngineErrorIsSkipped ==
  /\ cpc \in ConsumerPositions
  /\ (outcome = "error" /\ cpc \in { "reset", "get" }) =>
       /\ last_lines = before
       /\ cpc = "get" =>
            /\ Norm(popped) = Norm(Flat(segments)) => buffer = EmptyArr
            /\ \A i \in 1..Len(buffer) :
                 buffer[i].lo >= segments[Len(segments)][Len(segments[Len(segments)])].hi

\* after a failed segment the next one has reached the engine
C7_Witness ==
  /\ outcome = "error"
  /\ cpc = "engine"
  /\ Len(segments) >= 2
  /\ last_lines /= <<>>

\* C8: after the engine returned empty or whitespace-only text for a
\* segment, the store is as it was when the segment was handed over and the
\* buffer is empty until the next frame is popped.
C8_BlankTextAppendsNothing ==
  (outcome \in { "empty", "text" } /\ AllSpace(result) /\ cpc \in { "reset", "get" }) =>
     /\ last_lines = before
     /\ Len(last_lines) = Len(before)
     /\ (cpc = "get" /\ Norm(popped) = Norm(Flat(segments))) => buffer = EmptyArr

\* a whitespace-only result was dropped while the store held lines
C8_Witness ==
  /\ outcome = "empty"
  /\ result = << " ", "\n" >>
  /\ cpc = "get"
  /\ buffer = EmptyArr
  /\ last_lines /= <<>>

\* C9: the emitted segments followed by the pending buffer are the popped
\* frames in order (while a segment is being processed the buffer still
\* holds it and nothing is pending), and no segment is emitted before the
\* popped input reaches the threshold.
C9_SegmentsPartitionInput ==
  /\ cpc = "get" => Norm(Flat(segments) \o buffer) = Norm(popped)
  /\ cpc /= "get" =>
       /\ Norm(Flat(segments)) = Norm(popped)
       /\ buffer = segments[Len(segments)]
  /\ 2 * ArrLen(popped) < 3 * SAMPLE_RATE => segments = <<>>

\* several segments emitted and frames pending
C9_Witness ==
  /\ Len(segments) >= 3
  /\ cpc = "get"
  /\ Len(buffer) >= 2

\* C10 (as claimed): once the device has failed to open or start, the
\* process is not running the overlay server.
C10_DeviceErrorAbortsStartup ==
  mic = "dead" => ~(proc = "running" /\ server = "serving")

\* the store lines that exist once the pending append (if any) is counted out
Settled == IF cpc = "append" THEN Len(texts) - 1 ELSE Len(texts)

\* C11: segments are contiguous stretches of the captured samples, each one
\* starting where the one before ended, and while one is being processed it
\* is the latest and the buffer holds it alone; the lines come
\* from segments of strictly increasing number, and the store holds the
\* newest of them in that order, with non-decreasing timestamps.
C11_LinesInCaptureOrder ==
  /\ \A i \in 1..Len(segments) :
       /\ Len(Norm(segments[i])) = 1
       /\ Norm(segments[i])[1].lo =
            IF i = 1 THEN 0 ELSE Norm(segments[i - 1])[1].hi
  /\ cpc \in { "engine", "append", "truncate", "reset" } =>
       buffer = segments[Len(segments)]
  /\ Len(lineSeg) = Len(texts)
  /\ \A i \in 1..Len(lineSeg) :
       /\ lineSeg[i] \in 1..Len(segments)
       /\ i > 1 => lineSeg[i - 1] < lineSeg[i]
  /\ Len(last_lines) <= Settled
  /\ \A j \in 1..Len(last_lines) :
       /\ last_lines[j][1] = texts[Settled - Len(last_lines) + j]
       /\ j > 1 => last_lines[j - 1][2] <= last_lines[j][2]

\* two lines in the store from segments 1 and 3 (segment 2 gave none), with
\* two frames waiting in the queue
C11_Witness ==
  /\ lineSeg = << 1, 3 >>
  /\ Len(last_lines) = 2
  /\ last_lines[1][1] /= last_lines[2][1]
  /\ Len(audio_queue) = 2

\* the number of samples of the frame a sample array ends with
LastFrameLen(arr) == arr[Len(arr)].hi - arr[Len(arr)].lo

\* C14: every emitted segment has L samples with
\* 1.5 * SAMPLE_RATE <= L < 1.5 * SAMPLE_RATE + (length of its last frame),
\* the last frame being no longer than BLOCKSIZE.
C14_SegmentOvershootsLessThanAFrame ==
  \A i \in 1..Len(segments) :
    /\ 2 * ArrLen(segments[i]) >= 3 * SAMPLE_RATE
    /\ 2 * (ArrLen(segments[i]) - LastFrameLen(segments[i])) < 3 * SAMPLE_RATE
    /\ LastFrameLen(segments[i]) <= BLOCKSIZE

\* a second segment emitted, longer than the threshold
C14_Witness ==
  /\ Len(segments) >= 2
  /\ 2 * ArrLen(segments[2]) > 3 * SAMPLE_RATE
  /\ cpc = "engine"

\* C15 (as claimed): when the buffer is about to be reset after a closed
\* segment, exactly one engine call has been made for that segment.
C15_OneEngineCallPerSegment ==
  cpc = "reset" => calls = 1

\* C15 (amended): a closed segment enters the try block exactly once and is
\* alone in the buffer until the reset; the engine is called for it at most
\* once, and exactly once unless the attempt raised (the temp file could not
\* be written, or the call itself failed); after the reset the buffer holds
\* only samples that follow the segment.
C15_OneAttemptPerSegment ==
  /\ calls \in { 0, 1 }
  /\ cpc = "engine" => calls = 0
  /\ cpc \in { "append", "truncate" } => calls = 1
  /\ (cpc = "reset" /\ outcome /= "error") => calls = 1
  /\ cpc \in { "engine", "append", "truncate", "reset" } =>
       buffer = segments[Len(segments)]
  /\ (cpc = "get" /\ segments /= <<>>) =>
       \A i \in 1..Len(buffer) :
         buffer[i].lo >= segments[Len(segments)][Len(segments[Len(segments)])].hi

\* the second segment has been through its one engine call, which failed
C15_Witness ==
  /\ Len(segments) = 2
  /\ cpc = "reset"
  /\ outcome = "error"
  /\ calls = 1

\* the frames enqueued so far and not dequeued, then those dequeued, are the
\* captured blocks, one copy of each, in device order
QueueKeepsEveryBlock ==
  Norm(popped \o Flat(audio_queue)) =
    IF captured = 0 THEN <<>> ELSE << [lo |-> 0, hi |-> captured * BLOCKSIZE] >>

\* the callback can run for a block with and without a status flag
CallbackNeverWaits ==
  (proc = "running" /\ mic = "open") =>
    /\ ENABLED audio_callback(TRUE)
    /\ ENABLED audio_callback(FALSE)

\* C16: while the process runs with the device open the callback can always
\* run, whatever the consumer is doing and however many frames wait; the
\* queue followed by what was dequeued is one copy of every captured block
\* in order; and, as long as the process runs, the n-th block captured is
\* eventually dequeued.
C16_CallbackNeverWaitsNoFrameLost ==
  /\ [](CallbackNeverWaits /\ QueueKeepsEveryBlock)
  /\ \A n \in 1..DrainFrames :
       (captured >= n) ~> (ArrLen(popped) >= n * BLOCKSIZE \/ proc = "exited")

\* an engine call is in progress and the backlog is DrainQueue frames deep
C16_Witness ==
  /\ cpc = "engine"
  /\ Len(audio_queue) >= DrainQueue
  /\ Len(segments) = 1
  /\ proc = "running"

\* C20: a connection that has sent nothing is still in its first iteration,
\* before the comparison, with prev = None; so the first comparison always
\* sends, and the one event of a connection that has sent one so far is the
\* store as it was at the snapshot.
C20_FirstPollAlwaysSends ==
  \A v \in DOMAIN vpc :
    /\ (vpc[v] /= "closed" /\ sent[v] = <<>>) =>
         /\ vpc[v] \in { "acquire", "copy", "compare" }
         /\ ~prev[v].some
    /\ (vpc[v] = "yield" /\ Len(sent[v]) = 1) =>
         sent[v][1] = ExpectedEvent(hist[snapAt[v] + 1])

\* the first event of a connection, sent while the store is empty and has
\* never changed
C20_Witness ==
  \E v \in DOMAIN vpc :
    /\ vpc[v] = "yield"
    /\ sent[v] = << <<>> >>
    /\ hist = << <<>> >>

\* the number of the latest event the generator of v has been resumed after
LastSent(v) == IF vpc[v] = "yield" THEN Len(sent[v]) - 1 ELSE Len(sent[v])

\* C18: the snapshot a handler holds is the store as it was after the
\* number of appends made when it was taken, whatever has been appended or
\* truncated since (so snapshots taken after the same number of appends are
\* equal), and the last-sent value of an open connection is what the latest
\* event it was resumed after carried.
C18_SnapshotIsValueCopy ==
  /\ \A v \in DOMAIN vpc :
       /\ cur[v] = hist[snapAt[v] + 1]
       /\ (vpc[v] /= "closed" /\ prev[v].some) =>
            /\ Len(sent[v]) >= LastSent(v)
            /\ LastSent(v) >= 1
            /\ ExpectedEvent(prev[v].val) = sent[v][LastSent(v)]
  /\ \A v, w \in DOMAIN vpc : snapAt[v] = snapAt[w] => cur[v] = cur[w]

\* a snapshot of a full store, already sent and kept as prev, after which
\* the store took one more line and was truncated
C18_Witness ==
  \E v \in DOMAIN vpc :
    /\ vpc[v] = "sleep"
    /\ Len(cur[v]) = MAX_LINES
    /\ prev[v] = Some(cur[v])
    /\ snapAt[v] = Len(hist) - 2
    /\ last_lines /= cur[v]
    /\ Len(last_lines) = MAX_LINES

\* C13: the page a browser was served holds one line element per line of
\* the store as it was when the page was rendered, in store order, numbered
\* from 1, each with the line's text and timestamp, and at most MAX_LINES of
\* them; a page rendered after the first append shows exactly one element,
\* with the first non-empty text the engine returned (stripped).
C13_IndexRendersStore ==
  \A v \in DOMAIN page :
    page[v].loaded =>
      /\ Len(page[v].html) = Len(hist[page[v].at + 1])
      /\ Len(page[v].html) <= MAX_LINES
      /\ \A i \in 1..Len(page[v].html) :
           /\ page[v].html[i].id = i
           /\ page[v].html[i].text = hist[page[v].at + 1][i][1]
           /\ page[v].html[i].ts = hist[page[v].at + 1][i][2]
      /\ page[v].at = 1 =>
           /\ Len(page[v].html) = 1
           /\ page[v].html[1].text = texts[1]

\* one segment captured, the engine returned " b\n" for it, and the page
\* requested afterwards shows the one line "b"
C13_Witness ==
  \E v \in DOMAIN page :
    /\ page[v].loaded
    /\ Len(segments) = 1
    /\ result = << " ", "b", "\n" >>
    /\ Len(page[v].html) = 1
    /\ page[v].html[1].text = << "b" >>
    /\ page[v].html[1].ts = clock

\* C19 (as claimed): once the page of a browser has handled an event, it
\* shows one line element per line of that event, the i-th with the i-th
\* line's text and timestamp.
C19_PageShowsEventLines ==
  \A v \in DOMAIN page :
    page[v].got =>
      /\ Len(page[v].els) = Len(page[v].data)
      /\ \A i \in 1..Len(page[v].data) :
           /\ page[v].els[i].text = page[v].data[i].text
           /\ page[v].els[i].ts = page[v].data[i].ts

\* a step of the stream handler or of the index handler serving v
HandlerStep(v) == vpc'[v] /= vpc[v] \/ ipc'[v] /= ipc[v]

\* C12: a step of the stream or index handler serving v leaves the store,
\* the frame queue, the segment buffer and every other connection's
\* snapshot, last-sent value and events as they were; and the store changes
\* only in a step of the consumer's append (append, then truncate).
C12_HandlersChangeOnlyTheirConnection ==
  [][ /\ \A v \in DOMAIN vpc :
           HandlerStep(v) =>
             /\ last_lines' = last_lines
             /\ audio_queue' = audio_queue
             /\ buffer' = buffer
             /\ \A w \in DOMAIN vpc \ { v } :
                  /\ prev'[w] = prev[w]
                  /\ cur'[w] = cur[w]
                  /\ sent'[w] = sent[w]
      /\ last_lines' /= last_lines =>
           /\ cpc \in { "append", "truncate" }
           /\ cpc' /= cpc
           /\ vpc' = vpc
           /\ ipc' = ipc
    ]_vars

\* viewer 1 holds a non-empty last-sent value while browser 2, which had a
\* connection and closed it, has loaded the page
C12_Witness ==
  /\ vpc[1] = "sleep"
  /\ prev[1].some
  /\ prev[1].val /= <<>>
  /\ vpc[2] = "closed"
  /\ sent[2] /= <<>>
  /\ page[2].loaded

\* the contexts inside a `with lock:` block, named as holders of the lock
InCritical ==
  { h \in { ByConsumer } : cpc = "truncate" }
    \cup { ByViewer(v) : v \in { w \in DOMAIN vpc : vpc[w] = "copy" } }
    \cup { ByIndex(v) : v \in { w \in DOMAIN ipc : ipc[w] = "render" } }

\* C17: at most one context is inside a with-lock block, it is the holder
\* of the lock, and the lock is free when none is; so a consumer that is at
\* the queue pop, in the engine call or at the reset, and a stream handler
\* that is comparing, yielding, sleeping or closed, do not hold it. While
\* the process runs the holder can always take its next step and release,
\* and with no handler inside a with-lock block a consumer that has a line
\* to append can append it, wherever the viewers are stalled.
C17_StoreOnlyUnderLock ==
  /\ Cardinality(InCritical) <= 1
  /\ InCritical = {} <=> lock = Free
  /\ InCritical /= {} => InCritical = { lock }
  /\ proc = "running" =>
       /\ lock = ByConsumer => ENABLED ConsumerTruncate
       /\ \A v \in DOMAIN vpc :
            /\ lock = ByViewer(v) => ENABLED StreamCopy(v)
            /\ lock = ByIndex(v) => ENABLED IndexRender(v)
       /\ (cpc = "append" /\ InCritical = {}) => ENABLED ConsumerAppend(0)

\* the consumer waits to append while viewer 2 copies the store and viewer 1
\* is stalled at its yield
C17_Witness ==
  /\ cpc = "append"
  /\ vpc[2] = "copy"
  /\ lock = ByViewer(2)
  /\ vpc[1] = "yield"

=============================================================================
